---- MODULE Spec2Model ----
(***************************************************************************)
(* Model of src/src/tessellator/tessellator.rs:                            *)
(*   - PathConvIter (convert_path / Iterator::next), the adapter from      *)
(*     usvg path segments to lyon path events;  specification Spec.        *)
(*   - LyonTessellator::tessellate, the walk over the scene's nodes that   *)
(*     fills the transform, primitive and vertex lists; specification      *)
(*     SpecTess.                                                           *)
(*                                                                         *)
(* Numbers.  An f64 is modelled as an integer counting half f32-ULPs: the  *)
(* even integers are the values an f32 can hold, the odd ones lie halfway  *)
(* between two of them.  `x as f32` is F32 below (round to nearest, ties   *)
(* to the even mantissa).  NaN is the value NaN, which FEq never finds     *)
(* equal to anything.                                                      *)
(***************************************************************************)
EXTENDS Integers, Sequences, FiniteSets, TLC

\* ---------------------------------------------------------------- bounds
\* Longest segment sequence fed to PathConvIter.
MaxLen == 3
\* Most nodes in a scene walked by tessellate.
MaxShapes == 2
\* Most vertices the mesh holds (the engine stops emitting there).
MaxVerts == 2

\* ---------------------------------------------------------------- numbers
NaN == -1

\* `x as f32` (tessellator.rs:172, :81-82): the nearest f32, ties to even.
F32(x) ==
  IF x = NaN THEN NaN
  ELSE IF x % 2 = 0 THEN x
  ELSE IF ((x - 1) \div 2) % 2 = 0 THEN x - 1 ELSE x + 1

\* f64 `==`: NaN equals nothing, not even itself.
FEq(x, y) == x # NaN /\ y # NaN /\ x = y

\* fn point(x, y) -> Point
point(x, y) == <<F32(x), F32(y)>>

\* Input coordinates (f64 pairs).  (0,0), (1,0), (1,1) of the spec are
\* <<0,0>>, <<2,0>>, <<2,2>>; <<3,2>> is not representable as f32.
InPoints == {<<0, 0>>, <<2, 0>>, <<2, 2>>, <<3, 2>>}
\* Control-point pairs of the CurveTo segments drawn as input.
CtrlPairs == {<<<<3, 2>>, <<2, 0>>>>}

\* ---------------------------------------------------------------- segments
\* usvg::PathSegment
MoveTo(p) == [type |-> "MoveTo", x |-> p[1], y |-> p[2]]
LineTo(p) == [type |-> "LineTo", x |-> p[1], y |-> p[2]]
CurveTo(c1, c2, p) ==
  [type |-> "CurveTo", x1 |-> c1[1], y1 |-> c1[2],
   x2 |-> c2[1], y2 |-> c2[2], x |-> p[1], y |-> p[2]]
ClosePath == [type |-> "ClosePath"]

PathSegment ==
  {MoveTo(p) : p \in InPoints} \cup {LineTo(p) : p \in InPoints}
  \cup {CurveTo(c[1], c[2], p) : c \in CtrlPairs, p \in InPoints}
  \cup {ClosePath}

\* All segment sequences of length 0..n.
RECURSIVE SegSeqs(_)
SegSeqs(n) ==
  IF n = 0 THEN {<<>>}
  ELSE LET shorter == SegSeqs(n - 1)
       IN shorter \cup {Append(s, g) : s \in {t \in shorter : Len(t) = n - 1},
                                       g \in PathSegment}

\* ---------------------------------------------------------------- events
\* lyon::path::PathEvent
Begin(at) == [type |-> "Begin", at |-> at]
Line(from, to) == [type |-> "Line", from |-> from, to |-> to]
Cubic(from, ctrl1, ctrl2, to) ==
  [type |-> "Cubic", from |-> from, ctrl1 |-> ctrl1, ctrl2 |-> ctrl2, to |-> to]
End(last, first, close) ==
  [type |-> "End", last |-> last, first |-> first, close |-> close]
\* Option::None, for the deferred slot and for the value returned by next().
None == [type |-> "None"]

\* ---------------------------------------------------------------- state
VARIABLES
  \* PathConvIter
  segs,       \* the slice p.data the iterator was made over
  pos,        \* iter: how many segments have been consumed
  prev,       \* self.prev
  first,      \* self.first
  needs_end,  \* self.needs_end
  deferred,   \* self.deferred
  ret,        \* what the last call of next() returned (None before any call)
  out,        \* the events returned so far, in order
  calls       \* number of calls of next() made

VARIABLES
  \* LyonTessellator
  state,           \* self.state: NoState, or the LyonState init stored
  nodes,           \* input: the nodes svg_content holds, in descendants() order
  ni,              \* how many nodes the for loop has finished
  pc,              \* where tessellate is (see TessPc)
  transforms,      \* let mut transforms
  primitives,      \* let mut primitives
  vertices,        \* mesh.vertices
  prev_transform,  \* let mut prev_transform
  transform_idx,   \* let transform_idx (of the node under visit)
  ctor,            \* the VertexCtor of the pass that is running
  geom_start,      \* mesh.vertices.len() when the running pass began
  data,            \* what tessellate returned: Ok(data), or nothing
  prim_owner,      \* history: for each primitive, <<node number, pass>> that pushed it
  vert_owner,      \* history: for each vertex, <<node number, pass>> that emitted it
  stroke_failed,   \* history: node numbers whose stroke pass returned Err
  fill_failed      \* history: node numbers whose fill pass returned Err

iterVars == <<segs, pos, prev, first, needs_end, deferred, ret, out, calls>>
tessVars == <<state, nodes, ni, pc, transforms, primitives, vertices, prev_transform,
              transform_idx, ctor, geom_start, data, prim_owner, vert_owner,
              stroke_failed, fill_failed>>
vars == <<iterVars, tessVars>>

\* Calls of next() made after the stream's events, to observe None again.
MaxCalls == 2 * MaxLen + 3

\* fn convert_path(p) -> PathConvIter
convert_path(path_data) ==
  [iter |-> path_data, first |-> <<0, 0>>, prev |-> <<0, 0>>,
   deferred |-> None, needs_end |-> FALSE]

IterInit ==
  /\ segs \in SegSeqs(MaxLen)
  /\ LET it == convert_path(segs)
     IN /\ prev = it.prev
        /\ first = it.first
        /\ needs_end = it.needs_end
        /\ deferred = it.deferred
  /\ pos = 0
  /\ ret = None
  /\ out = <<>>
  /\ calls = 0

\* The value a call returns: recorded in ret, and in out when it is an event.
Return(e) ==
  /\ ret' = e
  /\ out' = IF e = None THEN out ELSE Append(out, e)
  /\ calls' = calls + 1

\* if self.deferred.is_some() { return self.deferred.take(); }
NextDeferred ==
  /\ UNCHANGED tessVars
  /\ calls < MaxCalls
  /\ deferred # None
  /\ Return(deferred)
  /\ deferred' = None
  /\ UNCHANGED <<segs, pos, prev, first, needs_end>>

\* The segment self.iter.next() yields, when there is one.
HasSeg == deferred = None /\ pos < Len(segs)
Seg == segs[pos + 1]

\* NextMoveToOpen with the Begin returned at once and nothing deferred.
NextMoveToOpen_NoDefer ==
  /\ UNCHANGED tessVars
  /\ calls < MaxCalls
  /\ HasSeg /\ Seg.type = "MoveTo" /\ needs_end
  /\ pos' = pos + 1
  /\ needs_end' = FALSE
  /\ prev' = point(Seg.x, Seg.y)
  /\ first' = prev'
  /\ Return(Begin(prev'))
  /\ UNCHANGED <<segs, deferred>>

\* Some(MoveTo { x, y }) with self.needs_end
NextMoveToOpen ==
  /\ UNCHANGED tessVars
  /\ calls < MaxCalls
  /\ HasSeg /\ Seg.type = "MoveTo" /\ needs_end
  /\ pos' = pos + 1
  /\ needs_end' = FALSE
  /\ prev' = point(Seg.x, Seg.y)
  /\ deferred' = Begin(prev')
  /\ first' = prev'
  /\ Return(End(prev, first, FALSE))
  /\ UNCHANGED segs

\* Some(MoveTo { x, y }) with !self.needs_end
NextMoveToFresh ==
  /\ UNCHANGED tessVars
  /\ calls < MaxCalls
  /\ HasSeg /\ Seg.type = "MoveTo" /\ ~needs_end
  /\ pos' = pos + 1
  /\ first' = point(Seg.x, Seg.y)
  /\ needs_end' = TRUE
  /\ Return(Begin(first'))
  /\ UNCHANGED <<segs, prev, deferred>>

\* Some(LineTo { x, y })
NextLineTo ==
  /\ UNCHANGED tessVars
  /\ calls < MaxCalls
  /\ HasSeg /\ Seg.type = "LineTo"
  /\ pos' = pos + 1
  /\ needs_end' = TRUE
  /\ prev' = point(Seg.x, Seg.y)
  /\ Return(Line(prev, prev'))
  /\ UNCHANGED <<segs, first, deferred>>

\* Some(CurveTo { x1, y1, x2, y2, x, y })
NextCurveTo ==
  /\ UNCHANGED tessVars
  /\ calls < MaxCalls
  /\ HasSeg /\ Seg.type = "CurveTo"
  /\ pos' = pos + 1
  /\ needs_end' = TRUE
  /\ prev' = point(Seg.x, Seg.y)
  /\ Return(Cubic(prev, point(Seg.x1, Seg.y1), point(Seg.x2, Seg.y2), prev'))
  /\ UNCHANGED <<segs, first, deferred>>

\* NextClosePath with the End built before prev is reset.
NextClosePath_LastBefore ==
  /\ UNCHANGED tessVars
  /\ calls < MaxCalls
  /\ HasSeg /\ Seg.type = "ClosePath"
  /\ pos' = pos + 1
  /\ needs_end' = FALSE
  /\ prev' = first
  /\ Return(End(prev, first, TRUE))
  /\ UNCHANGED <<segs, first, deferred>>

\* Some(ClosePath)
NextClosePath ==
  /\ UNCHANGED tessVars
  /\ calls < MaxCalls
  /\ HasSeg /\ Seg.type = "ClosePath"
  /\ pos' = pos + 1
  /\ needs_end' = FALSE
  /\ prev' = first
  /\ Return(End(prev', first, TRUE))
  /\ UNCHANGED <<segs, first, deferred>>

\* NextEndOpen with needs_end left set.
NextEndOpen_KeepsOpen ==
  /\ UNCHANGED tessVars
  /\ calls < MaxCalls
  /\ deferred = None /\ pos = Len(segs) /\ needs_end
  /\ Return(End(prev, first, FALSE))
  /\ UNCHANGED <<segs, pos, prev, first, needs_end, deferred>>

\* None (the slice is exhausted) with self.needs_end
NextEndOpen ==
  /\ UNCHANGED tessVars
  /\ calls < MaxCalls
  /\ deferred = None /\ pos = Len(segs) /\ needs_end
  /\ needs_end' = FALSE
  /\ Return(End(prev, first, FALSE))
  /\ UNCHANGED <<segs, pos, prev, first, deferred>>

\* None with !self.needs_end: next() returns None
NextNone ==
  /\ UNCHANGED tessVars
  /\ calls < MaxCalls
  /\ deferred = None /\ pos = Len(segs) /\ ~needs_end
  /\ Return(None)
  /\ UNCHANGED <<segs, pos, prev, first, needs_end, deferred>>

\* impl Iterator for PathConvIter: fn next(&mut self)
Next ==
  \/ NextDeferred
  \/ NextMoveToOpen
  \/ NextMoveToFresh
  \/ NextLineTo
  \/ NextCurveTo
  \/ NextClosePath
  \/ NextEndOpen
  \/ NextNone

\* The stream is over: next() has returned None.
Finished == calls > 0 /\ ret = None

\* ---------------------------------------------------------------- PathConvIter: properties
\* Is a sub-path open after the first n events of s?
RECURSIVE OpenAfter(_, _)
OpenAfter(s, n) ==
  IF n = 0 THEN FALSE
  ELSE IF s[n].type = "Begin" THEN TRUE
  ELSE IF s[n].type = "End" THEN FALSE
  ELSE OpenAfter(s, n - 1)

\* The place of the first Begin after event i, or Len(out) + 1.
NextBeginAfter(i) ==
  LET S == {j \in (i + 1)..Len(out) : out[j].type = "Begin"}
  IN IF S = {} THEN Len(out) + 1 ELSE CHOOSE j \in S : \A k \in S : j <= k

EndsBetween(i, j) == Cardinality({k \in (i + 1)..(j - 1) : out[k].type = "End"})

\* C1: every Begin is followed by exactly one End before the next Begin or
\* the end of the stream (judged once the next Begin, or None, has come).
C1_BeginEndPaired ==
  \A i \in 1..Len(out) :
    out[i].type = "Begin" =>
      LET j == NextBeginAfter(i)
      IN (j <= Len(out) \/ Finished) => EndsBetween(i, j) = 1

\* C2: a Begin comes only while no sub-path is open, and a Line, Cubic or End
\* only while one is open, so that the first event is a Begin and the
\* finished stream is a repetition of Begin, Line/Cubic*, End.
C2_OnlyInsideSubPath ==
  /\ \A k \in 1..Len(out) :
       IF out[k].type = "Begin" THEN ~OpenAfter(out, k - 1)
       ELSE OpenAfter(out, k - 1)
  /\ Finished => ~OpenAfter(out, Len(out))

\* C7: [MoveTo(p), MoveTo(q)] yields Begin(p), End(p, p, open), Begin(q),
\* End(q, q, open) and then None.
C7_TwoMoveTos ==
  \A p \in InPoints, q \in InPoints :
    (segs = <<MoveTo(p), MoveTo(q)>> /\ Finished) =>
      LET pp == point(p[1], p[2])
          qq == point(q[1], q[2])
      IN out = <<Begin(pp), End(pp, pp, FALSE), Begin(qq), End(qq, qq, FALSE)>>

\* C8: [MoveTo(p0), LineTo(p1), LineTo(p2)] yields Begin(p0), Line(p0, p1),
\* Line(p1, p2), End(p2, p0, open) and then None.
C8_OpenPolyline ==
  \A p0 \in InPoints, p1 \in InPoints, p2 \in InPoints :
    (segs = <<MoveTo(p0), LineTo(p1), LineTo(p2)>> /\ Finished) =>
      LET a == point(p0[1], p0[2])
          b == point(p1[1], p1[2])
          c == point(p2[1], p2[2])
      IN out = <<Begin(a), Line(a, b), Line(b, c), End(c, a, FALSE)>>

\* C9: [MoveTo(p0), LineTo(p1), ClosePath] yields Begin(p0), Line(p0, p1),
\* End(p0, p0, closed) and then None, with prev reset to first and the
\* sub-path no longer open.
C9_ClosedLine ==
  \A p0 \in InPoints, p1 \in InPoints :
    (segs = <<MoveTo(p0), LineTo(p1), ClosePath>> /\ Finished) =>
      LET a == point(p0[1], p0[2])
          b == point(p1[1], p1[2])
      IN /\ out = <<Begin(a), Line(a, b), End(a, a, TRUE)>>
         /\ prev = first /\ ~needs_end

\* A call of next() is being made.
Called == calls' = calls + 1

\* What C10 asks of one step of the iterator.
DeferralStep ==
  /\ (Called /\ deferred = None /\ needs_end /\ pos' = pos + 1
      /\ segs[pos'].type = "MoveTo")
     => (/\ ret' = End(prev, first, FALSE)
         /\ deferred' = Begin(point(segs[pos'].x, segs[pos'].y)))
  /\ (Called /\ deferred # None)
     => (/\ ret' = deferred
         /\ ret' = Begin(point(segs[pos].x, segs[pos].y))
         /\ segs[pos].type = "MoveTo"
         /\ pos' = pos
         /\ deferred' = None)
  /\ (deferred' # None)
     => (/\ deferred = None
         /\ deferred'.type = "Begin"
         /\ ret'.type = "End" /\ ~ret'.close)

RECURSIVE LastPoint(_, _)
LastPoint(s, n) ==
  IF n = 0 THEN <<0, 0>>
  ELSE IF s[n].type = "ClosePath" THEN LastPoint(s, n - 1)
  ELSE point(s[n].x, s[n].y)

\* The place of the last Begin among the first n events of out, or 0.
LastBegin(n) ==
  LET S == {i \in 1..n : out[i].type = "Begin"}
  IN IF S = {} THEN 0 ELSE CHOOSE i \in S : \A k \in S : k <= i

\* C11: when the input ends with a segment other than ClosePath, the stream
\* ends with exactly one End, not closed, whose last is the last point of
\* the input and whose first is the at of the sub-path's Begin; when it ends
\* with ClosePath nothing follows the closing End; the empty input yields
\* nothing, and [MoveTo(p)] yields Begin(p), End(p, p, open).
C11_FinalEnd ==
  Finished =>
    /\ segs = <<>> => out = <<>>
    /\ (segs # <<>> /\ segs[Len(segs)].type = "ClosePath") =>
         (out # <<>> /\ out[Len(out)].type = "End" /\ out[Len(out)].close)
    /\ (segs # <<>> /\ segs[Len(segs)].type # "ClosePath") =>
         /\ Len(out) >= 2
         /\ out[Len(out)].type = "End" /\ ~out[Len(out)].close
         /\ out[Len(out) - 1].type # "End"
         /\ out[Len(out)].last = LastPoint(segs, Len(segs))
         /\ LastBegin(Len(out)) # 0 =>
              out[Len(out)].first = out[LastBegin(Len(out))].at
    /\ \A p \in InPoints :
         segs = <<MoveTo(p)>> =>
           LET pp == point(p[1], p[2])
           IN out = <<Begin(pp), End(pp, pp, FALSE)>>

\* C15: a Line or Cubic that follows a Begin starts at the Begin's at, and
\* one that follows a Line or Cubic starts at that event's to.
C15_EdgesConnected ==
  \A k \in 2..Len(out) :
    out[k].type \in {"Line", "Cubic"} =>
      /\ out[k - 1].type = "Begin" => out[k].from = out[k - 1].at
      /\ out[k - 1].type \in {"Line", "Cubic"} => out[k].from = out[k - 1].to

\* A call of next() consumes a ClosePath.
ClosesPath ==
  Called /\ deferred = None /\ pos' = pos + 1 /\ segs[pos'].type = "ClosePath"

\* What C17 as stated asks of a step: the End's last is prev as it stood
\* before the close.
CloseStepAsStated ==
  ClosesPath =>
    /\ ret' = End(prev, first, TRUE)
    /\ prev' = first /\ ~needs_end'

\* C17 as stated: on ClosePath the End carries the previous point as it
\* stood before the close, and prev is reset only afterwards.
C17_AsStated == [][CloseStepAsStated]_vars

\* What C17 (amended) asks of a step.
CloseStep ==
  ClosesPath =>
    /\ ret' = End(first, first, TRUE)
    /\ prev' = first /\ first' = first /\ ~needs_end'

\* C17 (amended): on ClosePath prev is reset to first before the End is
\* built, so the call returns End(last=first, first=first, closed) and
\* leaves the sub-path not open.
C17_CloseResetsFirst == [][CloseStep]_vars

\* C17's case: a ClosePath has just been consumed after an edge that ended
\* away from the sub-path's first point.
C17_Witness ==
  /\ Len(out) >= 3 /\ ret = out[Len(out)]
  /\ ret.type = "End" /\ ret.close
  /\ out[Len(out) - 1].type = "Line"
  /\ out[Len(out) - 1].to # ret.first
  /\ segs[pos].type = "ClosePath"

\* What C19 asks of every state: no more than 2n+1 events, and None by the
\* call after them.
StreamBounded ==
  /\ Len(out) <= 2 * Len(segs) + 1
  /\ calls > 2 * Len(segs) + 1 => Finished

\* What C19 asks of a step: after None, None again and no event.
StaysFinished == (Finished /\ Called) => (ret' = None /\ out' = out)

\* C19: for n segments next() returns None after at most 2n+1 events, and
\* once it has returned None every later call returns None and emits
\* nothing.
C19_FiniteOnePass == []StreamBounded /\ [][StaysFinished]_vars

\* C19's case: a stream with more events than segments is over and next()
\* has been called again after its first None.
C19_Witness ==
  /\ Finished /\ Len(segs) >= 2 /\ Len(out) > Len(segs)
  /\ calls >= Len(out) + 2

\* ---------------------------------------------------------------- tessellate
\* u32::MAX.  It stands for 4294967295, which TLC's integers cannot hold;
\* the model uses only that it exceeds every list length.
U32Max == 2147483647
\* u32 arithmetic: `n as u32 - 1`, wrapping at 0 as the release build does.
U32Sub1(n) == IF n > 0 THEN n - 1 ELSE U32Max

\* usvg::Transform { a, b, c, d, e, f }
Transform(a, b, c, d, e, f) ==
  [a |-> a, b |-> b, c |-> c, d |-> d, e |-> e, f |-> f]

\* A seed that is an ordinary transform (the identity) in place of NaN.
NanTransform_Identity == Transform(2, 0, 0, 2, 0, 0)

\* let mut prev_transform = usvg::Transform { a: NAN, ... }
NanTransform == Transform(NaN, NaN, NaN, NaN, NaN, NaN)

\* usvg::Transform's `==`, field by field on f64
TransformEq(t, u) ==
  /\ FEq(t.a, u.a) /\ FEq(t.b, u.b) /\ FEq(t.c, u.c)
  /\ FEq(t.d, u.d) /\ FEq(t.e, u.e) /\ FEq(t.f, u.f)

\* GpuTransform { data0: [a, b, c, d] as f32, data1: [e, f, 0.0, 0.0] }
GpuTransformOf(t) ==
  [data0 |-> <<F32(t.a), F32(t.b), F32(t.c), F32(t.d)>>,
   data1 |-> <<F32(t.e), F32(t.f), 0, 0>>]

\* Resolved node transforms drawn as input: the identity, and two
\* translations that differ as f64 and are the same after `as f32`.
Identity == Transform(2, 0, 0, 2, 0, 0)
ShiftOdd == Transform(2, 0, 0, 2, 3, 0)
ShiftEven == Transform(2, 0, 0, 2, 4, 0)
InTransforms == {Identity, ShiftOdd, ShiftEven}

\* pub const FALLBACK_COLOR
FALLBACK_COLOR == [red |-> 0, green |-> 0, blue |-> 0, alpha |-> 0]

\* `(opacity.value() * 255_f64) as u8`, opacity given in thousandths
AlphaOf(opacity) == (opacity * 255) \div 1000

\* A color resolution without the fallback: a paint that is not a solid
\* color becomes black at the paint's opacity.
ColorOf_NoFallback(paint, opacity) ==
  IF paint.kind = "Color"
  THEN [red |-> paint.red, green |-> paint.green, blue |-> paint.blue,
        alpha |-> AlphaOf(opacity)]
  ELSE [red |-> 0, green |-> 0, blue |-> 0, alpha |-> AlphaOf(opacity)]

\* match paint { Paint::Color(c) => GpuColor { .. }, _ => FALLBACK_COLOR }
ColorOf(paint, opacity) ==
  IF paint.kind = "Color"
  THEN [red |-> paint.red, green |-> paint.green, blue |-> paint.blue,
        alpha |-> AlphaOf(opacity)]
  ELSE FALLBACK_COLOR

\* fn convert_stroke(s) -> (GpuColor, StrokeOptions): the color
convert_stroke(s) == ColorOf(s.paint, s.opacity)

\* GpuPrimitive::new(transform_idx, color)
GpuPrimitive(idx, color) == [transform |-> idx, color |-> color]

\* Paints drawn as input.
SolidPaint == [kind |-> "Color", red |-> 255, green |-> 0, blue |-> 0]
GradientPaint == [kind |-> "LinearGradient"]
NoPaint == [kind |-> "None"]
\* usvg::NodeKind: a Path, or anything else (a group)
GroupNode == [kind |-> "Group"]
PathNode(t, f, s) == [kind |-> "Path", transform |-> t, fill |-> f, stroke |-> s]
\* The nodes drawn as input: a group, and Path nodes with every pairing of
\* fill (none, solid, gradient) and stroke (none, solid), two on each
\* transform.
SolidFill == [kind |-> "Some", paint |-> SolidPaint, opacity |-> 500]
GradientFill == [kind |-> "Some", paint |-> GradientPaint, opacity |-> 500]
SolidStroke == [kind |-> "Some", paint |-> SolidPaint, opacity |-> 1000]
InNodes ==
  {GroupNode,
   PathNode(Identity, NoPaint, NoPaint),
   PathNode(Identity, SolidFill, SolidStroke),
   PathNode(ShiftOdd, SolidFill, NoPaint),
   PathNode(ShiftOdd, GradientFill, SolidStroke),
   PathNode(ShiftEven, NoPaint, SolidStroke),
   PathNode(ShiftEven, GradientFill, NoPaint)}

RECURSIVE Scenes(_)
Scenes(n) ==
  IF n = 0 THEN {<<>>}
  ELSE LET shorter == Scenes(n - 1)
       IN shorter \cup {Append(s, g) : s \in {t \in shorter : Len(t) = n - 1},
                                       g \in InNodes}

\* Where the caller of LyonTessellator is: after new(); init panicked;
\* tessellate panicked on an unset state; then the places of tessellate.
TessPc == {"new", "init_panic", "panic_unset",
           "loop", "fill", "filling", "stroke", "stroking", "ok", "panic"}
NoData == [kind |-> "None"]
\* Self { state: None }
NoState == [kind |-> "None"]
\* Some(LyonState { rtree, view_box })
LyonState(rtree) == [kind |-> "Some", rtree |-> rtree]

TessInit ==
  /\ state = NoState
  /\ nodes \in Scenes(MaxShapes)
  /\ ni = 0
  /\ pc = "new"
  /\ transforms = <<>>
  /\ primitives = <<>>
  /\ vertices = <<>>
  /\ prev_transform = NanTransform
  /\ transform_idx = 0
  /\ ctor = [prim_id |-> 0]
  /\ geom_start = 0
  /\ data = NoData
  /\ prim_owner = <<>>
  /\ vert_owner = <<>>
  /\ stroke_failed = {}
  /\ fill_failed = {}

\* pub fn init(&mut self, svg_content): the content parses
InitOk ==
  /\ UNCHANGED iterVars
  /\ pc = "new"
  /\ state' = LyonState(nodes)
  /\ pc' = "loop"
  /\ UNCHANGED <<nodes, ni, transforms, primitives, vertices, prev_transform,
                 transform_idx, ctor, geom_start, data, prim_owner, vert_owner,
                 stroke_failed, fill_failed>>

\* pub fn init: Tree::from_data returns Err and .unwrap() panics
InitPanic ==
  /\ UNCHANGED iterVars
  /\ pc = "new"
  /\ pc' = "init_panic"
  /\ UNCHANGED <<state, nodes, ni, transforms, primitives, vertices,
                 prev_transform, transform_idx, ctor, geom_start, data,
                 prim_owner, vert_owner, stroke_failed, fill_failed>>

\* tessellate before init: self.state.as_ref().unwrap() panics
TessellateUnset ==
  /\ UNCHANGED iterVars
  /\ pc = "new" /\ state = NoState
  /\ pc' = "panic_unset"
  /\ UNCHANGED <<state, nodes, ni, transforms, primitives, vertices,
                 prev_transform, transform_idx, ctor, geom_start, data,
                 prim_owner, vert_owner, stroke_failed, fill_failed>>

\* The node the for loop is at, in self.state's tree.
Node == state.rtree[ni + 1]

\* for node in descendants(): a node that is not a Path
SkipNode ==
  /\ UNCHANGED iterVars
  /\ pc = "loop" /\ ni < Len(state.rtree) /\ Node.kind # "Path"
  /\ ni' = ni + 1
  /\ UNCHANGED <<state, nodes, pc, transforms, primitives, vertices, prev_transform,
                 transform_idx, ctor, geom_start, data, prim_owner, vert_owner,
                 stroke_failed,
                 fill_failed>>

\* VisitPath comparing the transforms after `as f32` instead of as f64.
VisitPath_CompareNarrowed ==
  /\ UNCHANGED iterVars
  /\ pc = "loop" /\ ni < Len(state.rtree) /\ Node.kind = "Path"
  /\ LET t == Node.transform
         g == GpuTransformOf(t)
         h == GpuTransformOf(prev_transform)
         same == /\ \A i \in 1..4 : FEq(g.data0[i], h.data0[i])
                 /\ \A i \in 1..2 : FEq(g.data1[i], h.data1[i])
     IN /\ transforms' = IF ~same THEN Append(transforms, g) ELSE transforms
        /\ prev_transform' = t
  /\ transform_idx' = U32Sub1(Len(transforms'))
  /\ pc' = "fill"
  /\ UNCHANGED <<state, nodes, ni, primitives, vertices, ctor, geom_start, data,
                 prim_owner, vert_owner, stroke_failed, fill_failed>>

\* if let NodeKind::Path(p): the transform is appended when it differs
VisitPath ==
  /\ UNCHANGED iterVars
  /\ pc = "loop" /\ ni < Len(state.rtree) /\ Node.kind = "Path"
  /\ LET t == Node.transform
     IN /\ transforms' = IF ~TransformEq(t, prev_transform)
                         THEN Append(transforms, GpuTransformOf(t))
                         ELSE transforms
        /\ prev_transform' = t
  /\ transform_idx' = U32Sub1(Len(transforms'))
  /\ pc' = "fill"
  /\ UNCHANGED <<state, nodes, ni, primitives, vertices, ctor, geom_start, data,
                 prim_owner, vert_owner, stroke_failed,
                 fill_failed>>

\* if let Some(ref fill) = p.fill: no fill
NoFill ==
  /\ UNCHANGED iterVars
  /\ pc = "fill" /\ Node.fill.kind = "None"
  /\ pc' = "stroke"
  /\ UNCHANGED <<state, nodes, ni, transforms, primitives, vertices, prev_transform,
                 transform_idx, ctor, geom_start, data, prim_owner, vert_owner,
                 stroke_failed,
                 fill_failed>>

\* A fill pass whose VertexCtor holds the length of the list after the
\* push, not the place of the pushed primitive.
BeginFill_OffByOne ==
  /\ UNCHANGED iterVars
  /\ pc = "fill" /\ Node.fill.kind = "Some"
  /\ primitives' = Append(primitives,
        GpuPrimitive(transform_idx, ColorOf(Node.fill.paint, Node.fill.opacity)))
  /\ prim_owner' = Append(prim_owner, <<ni, "fill">>)
  /\ ctor' = [prim_id |-> Len(primitives')]
  /\ geom_start' = Len(vertices)
  /\ pc' = "filling"
  /\ UNCHANGED <<state, nodes, ni, transforms, vertices, prev_transform, transform_idx,
                 data, vert_owner, stroke_failed,
                 fill_failed>>

\* primitives.push(..); fill_tess.tessellate(.., VertexCtor { prim_id }) begins
BeginFill ==
  /\ UNCHANGED iterVars
  /\ pc = "fill" /\ Node.fill.kind = "Some"
  /\ primitives' = Append(primitives,
        GpuPrimitive(transform_idx, ColorOf(Node.fill.paint, Node.fill.opacity)))
  /\ prim_owner' = Append(prim_owner, <<ni, "fill">>)
  /\ ctor' = [prim_id |-> U32Sub1(Len(primitives'))]
  /\ geom_start' = Len(vertices)
  /\ pc' = "filling"
  /\ UNCHANGED <<state, nodes, ni, transforms, vertices, prev_transform, transform_idx,
                 data, vert_owner, stroke_failed,
                 fill_failed>>

\* The vertex a VertexCtor makes (the position is the engine's).
new_vertex(c) == [prim_id |-> c.prim_id]

\* impl FillVertexConstructor for VertexCtor: the engine emits a vertex
FillVertex ==
  /\ UNCHANGED iterVars
  /\ pc = "filling" /\ Len(vertices) < MaxVerts
  /\ vertices' = Append(vertices, new_vertex(ctor))
  /\ vert_owner' = Append(vert_owner, <<ni, "fill">>)
  /\ UNCHANGED <<state, nodes, ni, pc, transforms, primitives, prev_transform,
                 transform_idx, ctor, geom_start, data, prim_owner, stroke_failed,
                 fill_failed>>

\* fill_tess.tessellate returned Ok
FillOk ==
  /\ UNCHANGED iterVars
  /\ pc = "filling"
  /\ pc' = "stroke"
  /\ UNCHANGED <<state, nodes, ni, transforms, primitives, vertices, prev_transform,
                 transform_idx, ctor, geom_start, data, prim_owner, vert_owner,
                 stroke_failed,
                 fill_failed>>

\* fill_tess.tessellate returned Err (the builder drops the pass's vertices);
\* .expect("Error during tesselation!") panics
FillErr ==
  /\ UNCHANGED iterVars
  /\ pc = "filling"
  /\ vertices' = SubSeq(vertices, 1, geom_start)
  /\ vert_owner' = SubSeq(vert_owner, 1, geom_start)
  /\ fill_failed' = fill_failed \cup {ni}
  /\ pc' = "panic"
  /\ UNCHANGED <<state, nodes, ni, transforms, primitives, prev_transform,
                 transform_idx, ctor, geom_start, data, prim_owner, stroke_failed>>

\* End of the loop body for this node.
NextNode == ni' = ni + 1 /\ pc' = "loop"

\* if let Some(ref stroke) = p.stroke: no stroke
NoStroke ==
  /\ UNCHANGED iterVars
  /\ pc = "stroke" /\ Node.stroke.kind = "None"
  /\ NextNode
  /\ UNCHANGED <<state, nodes, transforms, primitives, vertices, prev_transform,
                 transform_idx, ctor, geom_start, data, prim_owner, vert_owner,
                 stroke_failed,
                 fill_failed>>

\* BeginStroke handing the engine the VertexCtor of the pass before.
BeginStroke_StaleCtor ==
  /\ UNCHANGED iterVars
  /\ pc = "stroke" /\ Node.stroke.kind = "Some"
  /\ primitives' = Append(primitives,
        GpuPrimitive(transform_idx, convert_stroke(Node.stroke)))
  /\ prim_owner' = Append(prim_owner, <<ni, "stroke">>)
  /\ geom_start' = Len(vertices)
  /\ pc' = "stroking"
  /\ UNCHANGED <<state, nodes, ni, transforms, vertices, prev_transform, transform_idx,
                 ctor, data, vert_owner, stroke_failed, fill_failed>>

\* primitives.push(..); stroke_tess.tessellate(.., VertexCtor { prim_id }) begins
BeginStroke ==
  /\ UNCHANGED iterVars
  /\ pc = "stroke" /\ Node.stroke.kind = "Some"
  /\ primitives' = Append(primitives,
        GpuPrimitive(transform_idx, convert_stroke(Node.stroke)))
  /\ prim_owner' = Append(prim_owner, <<ni, "stroke">>)
  /\ ctor' = [prim_id |-> U32Sub1(Len(primitives'))]
  /\ geom_start' = Len(vertices)
  /\ pc' = "stroking"
  /\ UNCHANGED <<state, nodes, ni, transforms, vertices, prev_transform, transform_idx,
                 data, vert_owner, stroke_failed,
                 fill_failed>>

\* impl StrokeVertexConstructor for VertexCtor: the engine emits a vertex
StrokeVertex ==
  /\ UNCHANGED iterVars
  /\ pc = "stroking" /\ Len(vertices) < MaxVerts
  /\ vertices' = Append(vertices, new_vertex(ctor))
  /\ vert_owner' = Append(vert_owner, <<ni, "stroke">>)
  /\ UNCHANGED <<state, nodes, ni, pc, transforms, primitives, prev_transform,
                 transform_idx, ctor, geom_start, data, prim_owner, stroke_failed,
                 fill_failed>>

\* stroke_tess.tessellate returned Ok
StrokeOk ==
  /\ UNCHANGED iterVars
  /\ pc = "stroking"
  /\ NextNode
  /\ UNCHANGED <<state, nodes, transforms, primitives, vertices, prev_transform,
                 transform_idx, ctor, geom_start, data, prim_owner, vert_owner,
                 stroke_failed,
                 fill_failed>>

\* StrokeErr with the result unwrapped as the fill pass's is.
StrokeErr_Panics ==
  /\ UNCHANGED iterVars
  /\ pc = "stroking"
  /\ vertices' = SubSeq(vertices, 1, geom_start)
  /\ vert_owner' = SubSeq(vert_owner, 1, geom_start)
  /\ stroke_failed' = stroke_failed \cup {ni}
  /\ pc' = "panic"
  /\ UNCHANGED <<state, nodes, ni, transforms, primitives, prev_transform,
                 transform_idx, ctor, geom_start, data, prim_owner, fill_failed>>

\* A stroke failure that takes the failed pass's primitive back off the
\* list.
StrokeErr_PopsPrimitive ==
  /\ UNCHANGED iterVars
  /\ pc = "stroking"
  /\ vertices' = SubSeq(vertices, 1, geom_start)
  /\ vert_owner' = SubSeq(vert_owner, 1, geom_start)
  /\ primitives' = SubSeq(primitives, 1, Len(primitives) - 1)
  /\ prim_owner' = SubSeq(prim_owner, 1, Len(prim_owner) - 1)
  /\ stroke_failed' = stroke_failed \cup {ni}
  /\ NextNode
  /\ UNCHANGED <<state, nodes, transforms, prev_transform, transform_idx,
                 ctor, geom_start, data, fill_failed>>

\* stroke_tess.tessellate returned Err (the builder drops the pass's
\* vertices); `let _ =` discards the result
StrokeErr ==
  /\ UNCHANGED iterVars
  /\ pc = "stroking"
  /\ vertices' = SubSeq(vertices, 1, geom_start)
  /\ vert_owner' = SubSeq(vert_owner, 1, geom_start)
  /\ stroke_failed' = stroke_failed \cup {ni}
  /\ NextNode
  /\ UNCHANGED <<state, nodes, transforms, primitives, prev_transform, transform_idx,
                 ctor, geom_start, data, prim_owner, fill_failed>>

\* Ok(TessellationData { vertices, indices, transforms, primitives })
ReturnOk ==
  /\ UNCHANGED iterVars
  /\ pc = "loop" /\ ni = Len(state.rtree)
  /\ data' = [kind |-> "Ok", vertices |-> vertices, transforms |-> transforms,
              primitives |-> primitives]
  /\ pc' = "ok"
  /\ UNCHANGED <<state, nodes, ni, transforms, primitives, vertices, prev_transform,
                 transform_idx, ctor, geom_start, prim_owner, vert_owner,
                 stroke_failed,
                 fill_failed>>

\* pub fn tessellate(&self)
NextTess ==
  \/ InitOk
  \/ InitPanic
  \/ TessellateUnset
  \/ SkipNode
  \/ VisitPath
  \/ NoFill
  \/ BeginFill
  \/ FillVertex
  \/ FillOk
  \/ FillErr
  \/ NoStroke
  \/ BeginStroke
  \/ StrokeVertex
  \/ StrokeOk
  \/ StrokeErr
  \/ ReturnOk

\* ---------------------------------------------------------------- tessellate: properties
\* The places in primitives / vertices of what pass `pass` of node n made.
PrimsOf(n, pass) == {i \in 1..Len(prim_owner) : prim_owner[i] = <<n, pass>>}
VertsOf(n, pass) == {k \in 1..Len(vert_owner) : vert_owner[k] = <<n, pass>>}

IsPath(n) == nodes[n + 1].kind = "Path"
HasFill(n) == IsPath(n) /\ nodes[n + 1].fill.kind = "Some"
HasStroke(n) == IsPath(n) /\ nodes[n + 1].stroke.kind = "Some"

\* Nodes the loop has reached (the one under visit included).
Visited ==
  IF pc \in {"new", "init_panic", "panic_unset", "loop", "ok"} THEN ni ELSE ni + 1

\* The last Path node before node n, or -1.
PrevPath(n) ==
  LET S == {m \in 0..(n - 1) : IsPath(m)}
  IN IF S = {} THEN -1 ELSE CHOOSE m \in S : \A k \in S : k <= m

\* Node n begins a maximal run of consecutive Path nodes with one transform.
StartsRun(n) ==
  /\ IsPath(n)
  /\ PrevPath(n) = -1 \/ nodes[PrevPath(n) + 1].transform # nodes[n + 1].transform

\* Number of maximal runs among the first n nodes.
Runs(n) == Cardinality({m \in 0..(n - 1) : StartsRun(m)})

\* The primitives the first n nodes push when every pass runs, from the
\* scene alone: per Path node its fill's, then its stroke's.
RECURSIVE ScenePrims(_)
ScenePrims(n) ==
  IF n = 0 THEN <<>>
  ELSE LET m == n - 1
           idx == Runs(n) - 1
           f == IF HasFill(m)
                THEN <<GpuPrimitive(idx, ColorOf(nodes[n].fill.paint, nodes[n].fill.opacity))>>
                ELSE <<>>
           k == IF HasStroke(m)
                THEN <<GpuPrimitive(idx, ColorOf(nodes[n].stroke.paint, nodes[n].stroke.opacity))>>
                ELSE <<>>
       IN ScenePrims(m) \o f \o k

\* Every vertex carries the place of the primitive of the pass that made it.
VerticesTagged ==
  \A k \in 1..Len(vertices) :
    PrimsOf(vert_owner[k][1], vert_owner[k][2]) = {vertices[k].prim_id + 1}

\* What C3 says in either reading, given how many stroke primitives a
\* shape whose stroke pass failed is to have.
StrokeFailureTolerated(nprims) ==
  /\ fill_failed = {} => pc # "panic"
  /\ pc = "ok" => data.kind = "Ok"
  /\ \A n \in stroke_failed :
       /\ n < ni
       /\ Cardinality(PrimsOf(n, "stroke")) = nprims
       /\ VertsOf(n, "stroke") = {}
  /\ pc \in {"loop", "ok"} =>
       \A m \in 0..(ni - 1) :
         /\ HasFill(m) => Cardinality(PrimsOf(m, "fill")) = 1
         /\ (HasStroke(m) /\ m \notin stroke_failed)
              => Cardinality(PrimsOf(m, "stroke")) = 1
  /\ VerticesTagged

C4_FillFailureReturnsErr ==
  fill_failed # {} => data = [kind |-> "Err", error |-> "GeometryError"]

\* C5: a shape with a fill and a stroke gets exactly two primitives, the
\* fill's and right after it the stroke's, with one transform index; its
\* fill vertices carry the first's place, its stroke vertices the second's;
\* and while a pass runs its VertexCtor holds the place of the primitive
\* pushed when the pass began.
C5_TwoPrimitivesTagged ==
  /\ \A n \in 0..(ni - 1) :
       (HasFill(n) /\ HasStroke(n)) =>
         \E i \in 1..Len(primitives) :
           /\ PrimsOf(n, "fill") = {i}
           /\ PrimsOf(n, "stroke") = {i + 1}
           /\ primitives[i].transform = primitives[i + 1].transform
           /\ \A k \in VertsOf(n, "fill") : vertices[k].prim_id = i - 1
           /\ \A k \in VertsOf(n, "stroke") : vertices[k].prim_id = i
  /\ pc = "filling" =>
       /\ ctor.prim_id = Len(primitives) - 1
       /\ prim_owner[Len(primitives)] = <<ni, "fill">>
  /\ pc = "stroking" =>
       /\ ctor.prim_id = Len(primitives) - 1
       /\ prim_owner[Len(primitives)] = <<ni, "stroke">>
  /\ VerticesTagged

\* C5's case: a shape with fill and stroke is done and both of its passes
\* have left vertices in the mesh.
C5_Witness ==
  \E n \in 0..(ni - 1) :
    /\ HasFill(n) /\ HasStroke(n)
    /\ VertsOf(n, "fill") # {} /\ VertsOf(n, "stroke") # {}

InPass == pc \in {"fill", "filling", "stroke", "stroking"}

\* What holds of the transform index between steps: while a shape is under
\* visit the list is not empty and the index is its last place; indices
\* along the primitives never decrease; and each is the last place of the
\* list as it stood when the primitive's shape was visited.
TransformIdxCurrent ==
  /\ InPass => Len(transforms) >= 1 /\ transform_idx = Len(transforms) - 1
  /\ \A i, j \in 1..Len(primitives) :
       i <= j => primitives[i].transform <= primitives[j].transform
  /\ \A i \in 1..Len(primitives) :
       primitives[i].transform = Runs(prim_owner[i][1] + 1) - 1

\* The step that visits a Path shape: on an empty list it appends; the new
\* index is the last place of the list, did not wrap, and did not decrease.
VisitStep ==
  (pc = "loop" /\ pc' = "fill") =>
    /\ (transforms = <<>> => Len(transforms') = 1)
    /\ Len(transforms') >= 1
    /\ transform_idx' = Len(transforms') - 1
    /\ transform_idx' # U32Max
    /\ transform_idx' >= transform_idx

\* C12: the first Path shape visited always appends a Transform, so the
\* index is never computed on an empty list; transform indices never
\* decrease in traversal order and each is the place of the most recently
\* appended Transform when its shape is visited.
C12_TransformIdxMonotone == []TransformIdxCurrent /\ [][VisitStep]_vars

\* C12's case: the call returned with primitives of two shapes, the later
\* one on a later transform.
C12_Witness ==
  /\ pc = "ok" /\ Len(primitives) >= 2
  /\ primitives[1].transform = 0
  /\ primitives[Len(primitives)].transform = 1

\* Node n has a fill whose paint is not a solid color.
HasGradientFill(n) == HasFill(n) /\ nodes[n + 1].fill.paint.kind # "Color"

\* The fill pass of node n has begun.
FillBegun(n) == n < ni \/ (n = ni /\ pc \in {"filling", "stroke", "stroking"})

\* C13: a shape whose fill paint is not a solid color gets exactly one fill
\* primitive, of the fallback color {0,0,0,0}; its fill vertices carry that
\* primitive's place; and the call panics only when a pass of the engine
\* failed, never because of the paint.
C13_GradientFallback ==
  /\ \A n \in 0..(Len(nodes) - 1) :
       (HasGradientFill(n) /\ FillBegun(n)) =>
         /\ Cardinality(PrimsOf(n, "fill")) = 1
         /\ \A i \in PrimsOf(n, "fill") :
              /\ primitives[i].color = FALLBACK_COLOR
              /\ \A k \in VertsOf(n, "fill") : vertices[k].prim_id = i - 1
  /\ pc = "panic" => ni \in fill_failed
  /\ (pc = "ok" /\ fill_failed = {}) => data.primitives = primitives

\* C13's case: the call returned a mesh holding fill vertices of a shape
\* with a gradient fill.
C13_Witness ==
  /\ pc = "ok" /\ data.kind = "Ok"
  /\ \E n \in 0..(Len(nodes) - 1) :
       HasGradientFill(n) /\ VertsOf(n, "fill") # {}

\* C14: when svg_content does not parse, init hands its caller a typed
\* failure and does not abort; the tessellator's state stays unset.
C14_ParseFailureReturnsErr ==
  /\ pc # "init_panic"
  /\ pc \in {"new", "init_panic", "panic_unset"} => state = NoState

\* C16: at every point of the walk and in the returned data every
\* vertex's prim_id is less than the number of primitives and every
\* primitive's transform index is less than the number of transforms.
C16_BackRefsInRange ==
  /\ \A k \in 1..Len(vertices) : vertices[k].prim_id < Len(primitives)
  /\ \A i \in 1..Len(primitives) : primitives[i].transform < Len(transforms)
  /\ pc \in {"filling", "stroking"} => ctor.prim_id < Len(primitives)
  /\ pc = "ok" =>
       /\ \A k \in 1..Len(data.vertices) :
            data.vertices[k].prim_id < Len(data.primitives)
       /\ \A i \in 1..Len(data.primitives) :
            data.primitives[i].transform < Len(data.transforms)

\* C16's case: the call returned a mesh with vertices after a stroke pass
\* had failed and left its primitive without vertices.
C16_Witness ==
  /\ pc = "ok" /\ stroke_failed # {}
  /\ Len(data.vertices) >= 1 /\ Len(data.primitives) >= 2

IsPrefix(a, b) == Len(a) <= Len(b) /\ SubSeq(b, 1, Len(a)) = a

\* Node n is a Path with neither fill nor stroke.
BarePath(n) == IsPath(n) /\ ~HasFill(n) /\ ~HasStroke(n)

\* Primitive i is the i-th pass started: passes are in node order, a
\* node's fill before its stroke; a bare Path has no primitive, no vertex.
PassesInOrder ==
  /\ Len(prim_owner) = Len(primitives)
  /\ \A i, j \in 1..Len(prim_owner) :
       i < j =>
         \/ prim_owner[i][1] < prim_owner[j][1]
         \/ /\ prim_owner[i][1] = prim_owner[j][1]
            /\ prim_owner[i][2] = "fill" /\ prim_owner[j][2] = "stroke"
  /\ \A n \in 0..(Len(nodes) - 1) :
       BarePath(n) =>
         /\ PrimsOf(n, "fill") \cup PrimsOf(n, "stroke") = {}
         /\ VertsOf(n, "fill") \cup VertsOf(n, "stroke") = {}

\* Every step leaves what the lists hold in place, and a step on a bare
\* Path leaves primitives and vertices as they are.
AppendOnlyStep ==
  /\ IsPrefix(primitives, primitives')
  /\ IsPrefix(transforms, transforms')
  /\ IsPrefix(prim_owner, prim_owner')
  /\ (pc \in {"loop", "fill", "stroke"} /\ ni < Len(nodes) /\ BarePath(ni)) =>
       (primitives' = primitives /\ vertices' = vertices)

\* C18: primitives and transforms only grow by appending, primitive i is the
\* i-th pass started, passes go in traversal order with fill before stroke,
\* and a Path with neither fill nor stroke changes neither primitives nor
\* vertices.
C18_AppendOnly == []PassesInOrder /\ [][AppendOnlyStep]_vars

\* C18's case: the call returned after a bare Path was walked between or
\* beside shapes that pushed primitives, one of them after a failed stroke.
C18_Witness ==
  /\ pc = "ok" /\ Len(primitives) >= 2 /\ stroke_failed # {}
  /\ \E n \in 0..(Len(nodes) - 1) : BarePath(n)

\* ---------------------------------------------------------------- specifications
\* The part not under study stays as constructed.
IterIdle ==
  /\ segs = <<>> /\ pos = 0 /\ prev = <<0, 0>> /\ first = <<0, 0>>
  /\ needs_end = FALSE /\ deferred = None /\ ret = None /\ out = <<>>
  /\ calls = 0
TessIdle ==
  /\ state = NoState /\ nodes = <<>> /\ ni = 0 /\ pc = "new"
  /\ transforms = <<>>
  /\ primitives = <<>> /\ vertices = <<>> /\ prev_transform = NanTransform
  /\ transform_idx = 0 /\ ctor = [prim_id |-> 0] /\ geom_start = 0
  /\ data = NoData /\ prim_owner = <<>> /\ vert_owner = <<>>
  /\ stroke_failed = {} /\ fill_failed = {}

\* PathConvIter over every segment sequence of length <= MaxLen.
Init == IterInit /\ TessIdle
Spec == Init /\ [][Next]_vars

\* tessellate over every scene of at most MaxShapes nodes.
InitTess == TessInit /\ IterIdle
SpecTess == InitTess /\ [][NextTess]_vars

====
